---- MODULE Spec2Model ----
(***************************************************************************)
(* Model of sandbox/demo3.py: three Fibonacci routines (naive recursion,   *)
(* an iterative loop, and a numba-jitted copy of the loop that is timed)   *)
(* and the module-level statement print(fibonacci_loop(30)).               *)
(*                                                                         *)
(* Integer values.  A Python int is unbounded; a value computed by the     *)
(* numba-compiled function is a 64-bit machine integer.  Both are kept as  *)
(* little-endian sequences of base-2^16 digits: a Python int (only         *)
(* non-negative ones arise for inputs n >= 0) as a digit sequence of any   *)
(* length without leading zero digits (0 is <<0>>, 55 is <<55>>), an int64 *)
(* as exactly four digits in two's complement.  Arguments n, loop counts   *)
(* and clock readings are small and are kept as TLA+ integers.             *)
(***************************************************************************)
EXTENDS Integers, Sequences, FiniteSets

\* ------------------------------------------------------------------ bounds
\* Largest argument the importer passes to the recursive fibonacci.
MaxRecN == 10
\* Largest argument the importer passes to fibonacci_loop and to
\* fibonacci_numba_loop (large enough for 64-bit overflow in the jitted loop).
MaxLoopN == 92
\* Largest advance of the wall clock between two time.time() readings.
MaxTick == 1
\* Largest number of fibonacci_numba_loop calls the importer makes.
MaxTimedCalls == 1

\* ------------------------------------------------------------- arithmetic
Base == 2^16

\* The digits of a + b + carry, for digit sequences a and b.
RECURSIVE AddDigits(_, _, _)
AddDigits(a, b, carry) ==
    IF a = << >> /\ b = << >>
    THEN IF carry = 0 THEN << >> ELSE <<carry>>
    ELSE LET da == IF a = << >> THEN 0 ELSE Head(a)
             db == IF b = << >> THEN 0 ELSE Head(b)
             s  == da + db + carry
             ra == IF a = << >> THEN << >> ELSE Tail(a)
             rb == IF b = << >> THEN << >> ELSE Tail(b)
         IN  <<s % Base>> \o AddDigits(ra, rb, s \div Base)

\* A small natural number as a Python int.
PyInt(k) == <<k>>

\* Python's + on two (non-negative) ints: exact.
PyAdd(a, b) == AddDigits(a, b, 0)

\* A small natural number as an int64.
Int64(k) == <<k, 0, 0, 0>>

\* + on two int64 values in compiled code: the sum modulo 2^64.
Int64Add(a, b) == SubSeq(AddDigits(a, b, 0), 1, 4)

\* The int64 is negative (its sign bit is set).
Int64Negative(x) == x[4] >= Base \div 2

RECURSIVE StripZeros(_)
StripZeros(d) ==
    IF Len(d) > 1 /\ d[Len(d)] = 0 THEN StripZeros(SubSeq(d, 1, Len(d) - 1)) ELSE d

\* The non-negative int64 x and the Python int v are the same number.
SameNumber(v, x) == ~Int64Negative(x) /\ StripZeros(x) = v

\* A local variable before its first assignment (no int has zero digits).
Unbound == << >>

\* --------------------------------------------------------- pure functions
\* A base-case test that lets n = 1 through to the else branch.
FibTestMutant(n) == n <= 0

\* line 2: the test n <= 1 of fibonacci
FibTest(n) == n <= 1

\* def fibonacci(n)
RECURSIVE fibonacci(_)
fibonacci(n) ==
    IF FibTest(n)
    THEN PyInt(n)
    ELSE PyAdd(fibonacci(n - 1), fibonacci(n - 2))

\* The two assignments done one after the other: p0 = p1; p1 = p0 + p1.
LoopBodyMutant(p) == <<p[2], PyAdd(p[2], p[2])>>

\* The loop body: p0, p1 = p1, p0 + p1, on the pair <<p0, p1>>.
LoopBody(p) == <<p[2], PyAdd(p[1], p[2])>>

\* The pair p after k executions of the loop body.  The k executions are done
\* as two halves, the first evaluated (it is a pair) before the second starts,
\* which keeps the evaluation shallow.
RECURSIVE LoopRun(_, _)
LoopRun(p, k) ==
    IF k = 0 THEN p
    ELSE IF k = 1 THEN LoopBody(p)
    ELSE LET q == LoopRun(p, k \div 2)
         IN  IF Len(q) = 2 THEN LoopRun(q, k - (k \div 2)) ELSE q

\* <<p0, p1>> after k executions of the loop body, starting from p0 = 0 and
\* p1 = 1 (lines 11-12).
LoopAfter(k) == LoopRun(<<PyInt(0), PyInt(1)>>, k)

\* A loop over range(n): one iteration fewer.
LoopCountMutant(n) == n

\* The number of iterations of: for _ in range(n+1).
LoopCount(n) == n + 1

\* A base-case test that lets n = 1 through to the loop.
LoopTestMutant(n) == n <= 0

\* line 8: the test n <= 1 of fibonacci_loop
LoopTest(n) == n <= 1

\* def fibonacci_loop(n)
fibonacci_loop(n) ==
    IF LoopTest(n)
    THEN PyInt(n)
    ELSE LoopAfter(LoopCount(n))[2]

\* The loop body of the compiled function, on int64 values.
JitLoopBody(p) == <<p[2], Int64Add(p[1], p[2])>>

\* The pair p after k executions of the compiled loop body (in two halves, as
\* in LoopRun).
RECURSIVE JitLoopRun(_, _)
JitLoopRun(p, k) ==
    IF k = 0 THEN p
    ELSE IF k = 1 THEN JitLoopBody(p)
    ELSE LET q == JitLoopRun(p, k \div 2)
         IN  IF Len(q) = 2 THEN JitLoopRun(q, k - (k \div 2)) ELSE q

\* <<p0, p1>> of the compiled function after k executions of its loop body,
\* starting from p0 = 0 and p1 = 1 (lines 26-27).
JitLoopAfter(k) == JitLoopRun(<<Int64(0), Int64(1)>>, k)

\* The number of iterations of the compiled function's: for _ in range(n+1).
JitLoopCount(n) == n + 1

\* line 23: the test n <= 1 of jitted_fibonacci_loop
JitTest(n) == n <= 1

\* def jitted_fibonacci_loop(n: int), compiled by @numba.jit() for an int64 n
jitted_fibonacci_loop(n) ==
    IF JitTest(n)
    THEN Int64(n)
    ELSE JitLoopAfter(JitLoopCount(n))[2]

\* The reference sequence F(0) = 0, F(1) = 1, F(k) = F(k-1) + F(k-2).
\* FExtend(s, m): the sequence s = <<F(0), ..., F(j)>>, j >= 1, with its next m
\* members appended.
RECURSIVE FExtend(_, _)
FExtend(s, m) ==
    IF m = 0 THEN s
    ELSE IF m = 1 THEN Append(s, PyAdd(s[Len(s)], s[Len(s) - 1]))
    ELSE LET t == FExtend(s, m \div 2)
         IN  IF Len(t) > Len(s) THEN FExtend(t, m - (m \div 2)) ELSE t

MaxF == MaxLoopN + 4
FTable == FExtend(<<PyInt(0), PyInt(1)>>, MaxF - 1)
F(k) == FTable[k + 1]

\* ------------------------------------------------------------------ state
VARIABLES
    numbaInstalled, \* the environment: import numba succeeds
    modpc,      \* the module body: "L38" (about to call), "L38_print", "done"
    active,     \* the function the top-level call is in, or "none"
    last,       \* the latest top-level call: [fn, n]
    ret,        \* what the latest top-level call returned: [kind, val]
    out,        \* standard output: the lines printed so far
    loadCalls,  \* the functions invoked while the module was loading
    stack,      \* fibonacci: the call stack, innermost frame last
    maxDepth,   \* fibonacci: the largest stack depth of the latest call
    steps,      \* fibonacci: the steps the latest call has taken
    loopF,      \* fibonacci_loop: its frame [pc, n, p0, p1, i]
    timedF,     \* fibonacci_numba_loop: its frame [pc, n_value, start, finish, compiled]
    jitF,       \* jitted_fibonacci_loop: its frame [pc, n, p0, p1, i, result]
    events,     \* fibonacci_numba_loop: what the latest call did, in order
    jitArgs,    \* the arguments the latest call invoked the inner function with
    timedCalls  \* the number of fibonacci_numba_loop calls made

vars == <<numbaInstalled, modpc, active, last, ret, out, loadCalls, stack,
          maxDepth, steps, loopF, timedF, jitF, events, jitArgs, timedCalls>>

NoFrame == [pc |-> "none", n |-> 0, p0 |-> Unbound, p1 |-> Unbound, i |-> 0]
NoJitFrame == [pc |-> "none", n |-> 0, p0 |-> Unbound, p1 |-> Unbound, i |-> 0,
               result |-> Unbound]
NoTimedFrame == [pc |-> "none", n_value |-> 0, start |-> 0, finish |-> 0,
                 compiled |-> FALSE]
Pending == [kind |-> "pending", val |-> << >>]
IntValue(v) == [kind |-> "int", val |-> v]
NoneValue == [kind |-> "None", val |-> << >>]
Raised == [kind |-> "ModuleNotFoundError", val |-> << >>]

\* print(v) of an int v: one line holding v.
IntLine(v) == [prefix |-> "", val |-> v]

\* print(f"Excluding compilation and this message, took: {d}")
TimedLine(d) == [prefix |-> "Excluding compilation and this message, took: ",
                 val |-> <<d>>]

Init ==
    /\ numbaInstalled \in BOOLEAN
    /\ modpc = "L38"
    /\ active = "none"
    /\ last = [fn |-> "none", n |-> 0]
    /\ ret = Pending
    /\ out = << >>
    /\ loadCalls = {}
    /\ stack = << >>
    /\ maxDepth = 0
    /\ steps = 0
    /\ loopF = NoFrame
    /\ timedF = NoTimedFrame
    /\ jitF = NoJitFrame
    /\ events = << >>
    /\ jitArgs = << >>
    /\ timedCalls = 0

\* A frame of fibonacci: at "L2" it tests n <= 1, at "L5a" it waits for
\* fibonacci(n-1), at "L5b" it holds a and is about to call fibonacci(n-2), at
\* "L5c" it waits for that call, at "L5d" it holds a and b.
FibFrame(n) == [pc |-> "L2", n |-> n, a |-> Unbound, b |-> Unbound]

\* A top-level call of fn(n) begins: the frames of the call are created and the
\* record of the previous call is dropped.
Enter(fn, n) ==
    /\ active' = fn
    /\ last' = [fn |-> fn, n |-> n]
    /\ ret' = Pending
    /\ loadCalls' = IF modpc = "done" THEN loadCalls ELSE loadCalls \cup {fn}
    /\ stack' = IF fn = "fibonacci" THEN <<FibFrame(n)>> ELSE << >>
    /\ maxDepth' = IF fn = "fibonacci" THEN 1 ELSE 0
    /\ steps' = 0
    /\ loopF' = IF fn = "fibonacci_loop"
                THEN [NoFrame EXCEPT !.pc = "L8", !.n = n] ELSE NoFrame
    /\ timedF' = IF fn = "fibonacci_numba_loop"
                 THEN [NoTimedFrame EXCEPT !.pc = "L18", !.n_value = n]
                 ELSE NoTimedFrame
    /\ jitF' = NoJitFrame
    /\ events' = << >>
    /\ jitArgs' = << >>
    /\ timedCalls' = IF fn = "fibonacci_numba_loop" THEN timedCalls + 1 ELSE timedCalls
    /\ UNCHANGED <<numbaInstalled, out>>

\* ------------------------------------------------------------------ module
\* line 38: the call fibonacci_loop(30) of print(fibonacci_loop(30))
LoadCall ==
    /\ modpc = "L38"
    /\ active = "none"
    /\ modpc' = "L38_print"
    /\ Enter("fibonacci_loop", 30)

\* The print of line 38 done twice.
LoadPrintMutant ==
    /\ modpc = "L38_print"
    /\ active = "none"
    /\ ret.kind = "int"
    /\ out' = out \o <<IntLine(ret.val), IntLine(ret.val)>>
    /\ modpc' = "done"
    /\ UNCHANGED <<numbaInstalled, active, last, ret, loadCalls, stack, maxDepth,
                   steps, loopF, timedF, jitF, events, jitArgs, timedCalls>>

\* line 38: print(...) of the value the call returned
LoadPrint ==
    /\ modpc = "L38_print"
    /\ active = "none"
    /\ ret.kind = "int"
    /\ out' = Append(out, IntLine(ret.val))
    /\ modpc' = "done"
    /\ UNCHANGED <<numbaInstalled, active, last, ret, loadCalls, stack, maxDepth,
                   steps, loopF, timedF, jitF, events, jitArgs, timedCalls>>

\* the importer calls fibonacci(n)
CallFibonacci ==
    /\ modpc = "done"
    /\ active = "none"
    /\ \E n \in 0..MaxRecN : Enter("fibonacci", n)
    /\ UNCHANGED modpc

\* the importer calls fibonacci_loop(n)
CallLoop ==
    /\ modpc = "done"
    /\ active = "none"
    /\ \E n \in 0..MaxLoopN : Enter("fibonacci_loop", n)
    /\ UNCHANGED modpc

\* the importer calls fibonacci_numba_loop(n_value)
CallTimed ==
    /\ modpc = "done"
    /\ active = "none"
    /\ timedCalls < MaxTimedCalls
    /\ \E n \in 0..MaxLoopN : Enter("fibonacci_numba_loop", n)
    /\ UNCHANGED modpc

\* --------------------------------------------------------------- fibonacci
Max(x, y) == IF x >= y THEN x ELSE y

FibOthers == <<numbaInstalled, modpc, last, out, loadCalls, loopF, timedF, jitF,
               events, jitArgs, timedCalls>>

\* A frame of fibonacci returns v: its caller's frame takes the value, or, for
\* the outermost frame, the top-level call returns v.
FibReturn(v) ==
    LET rest == SubSeq(stack, 1, Len(stack) - 1)
        k    == Len(rest)
    IN  /\ IF k = 0
           THEN /\ stack' = rest
                /\ ret' = IntValue(v)
                /\ active' = "none"
           ELSE /\ stack' = [rest EXCEPT ![k] =
                                IF @.pc = "L5a"
                                THEN [@ EXCEPT !.a = v, !.pc = "L5b"]
                                ELSE [@ EXCEPT !.b = v, !.pc = "L5d"]]
                /\ UNCHANGED <<ret, active>>
        /\ steps' = steps + 1
        /\ UNCHANGED maxDepth
        /\ UNCHANGED FibOthers

\* A frame calls fibonacci(n): a new frame, the caller at pc.
FibCall(pc, n) ==
    /\ stack' = Append([stack EXCEPT ![Len(stack)].pc = pc], FibFrame(n))
    /\ maxDepth' = Max(maxDepth, Len(stack) + 1)
    /\ steps' = steps + 1
    /\ UNCHANGED <<ret, active>>
    /\ UNCHANGED FibOthers

\* lines 2-3: if n <= 1: return n
FibBase ==
    /\ active = "fibonacci"
    /\ stack[Len(stack)].pc = "L2"
    /\ FibTest(stack[Len(stack)].n)
    /\ FibReturn(PyInt(stack[Len(stack)].n))

\* lines 2, 4-5: else: the left operand, fibonacci(n-1)
FibFirst ==
    /\ active = "fibonacci"
    /\ stack[Len(stack)].pc = "L2"
    /\ ~FibTest(stack[Len(stack)].n)
    /\ FibCall("L5a", stack[Len(stack)].n - 1)

\* line 5: the right operand, fibonacci(n-2)
FibSecond ==
    /\ active = "fibonacci"
    /\ stack[Len(stack)].pc = "L5b"
    /\ FibCall("L5c", stack[Len(stack)].n - 2)

\* The return of line 5 with the right operand left out of the sum.
FibSumMutant ==
    /\ active = "fibonacci"
    /\ stack[Len(stack)].pc = "L5d"
    /\ FibReturn(stack[Len(stack)].a)

\* line 5: return fibonacci(n-1) + fibonacci(n-2)
FibSum ==
    /\ active = "fibonacci"
    /\ stack[Len(stack)].pc = "L5d"
    /\ FibReturn(PyAdd(stack[Len(stack)].a, stack[Len(stack)].b))

\* ----------------------------------------------------------- fibonacci_loop
LoopFrameStep(f) ==
    /\ loopF' = f
    /\ UNCHANGED <<numbaInstalled, modpc, active, last, ret, out, loadCalls, stack,
                   maxDepth, steps, timedF, jitF, events, jitArgs, timedCalls>>

LoopFrameReturn(v) ==
    /\ ret' = IntValue(v)
    /\ active' = "none"
    /\ loopF' = [loopF EXCEPT !.pc = "returned"]
    /\ UNCHANGED <<numbaInstalled, modpc, last, out, loadCalls, stack, maxDepth,
                   steps, timedF, jitF, events, jitArgs, timedCalls>>

\* lines 8-9: if n <= 1: return n
LoopBase ==
    /\ active = "fibonacci_loop"
    /\ loopF.pc = "L8"
    /\ LoopTest(loopF.n)
    /\ LoopFrameReturn(PyInt(loopF.n))

\* lines 8, 10: else
LoopElse ==
    /\ active = "fibonacci_loop"
    /\ loopF.pc = "L8"
    /\ ~LoopTest(loopF.n)
    /\ LoopFrameStep([loopF EXCEPT !.pc = "L11"])

\* line 11: p0 = 0
LoopSetP0 ==
    /\ active = "fibonacci_loop"
    /\ loopF.pc = "L11"
    /\ LoopFrameStep([loopF EXCEPT !.pc = "L12", !.p0 = PyInt(0)])

\* line 12: p1 = 1
LoopSetP1 ==
    /\ active = "fibonacci_loop"
    /\ loopF.pc = "L12"
    /\ LoopFrameStep([loopF EXCEPT !.pc = "L13", !.p1 = PyInt(1)])

\* lines 13-14: one iteration of for _ in range(n+1): p0, p1 = p1, p0 + p1
LoopIterate ==
    /\ active = "fibonacci_loop"
    /\ loopF.pc = "L13"
    /\ loopF.i < LoopCount(loopF.n)
    /\ LET p == LoopBody(<<loopF.p0, loopF.p1>>)
       IN  LoopFrameStep([loopF EXCEPT !.p0 = p[1], !.p1 = p[2], !.i = @ + 1])

\* line 13: the range is exhausted
LoopExit ==
    /\ active = "fibonacci_loop"
    /\ loopF.pc = "L13"
    /\ ~(loopF.i < LoopCount(loopF.n))
    /\ LoopFrameStep([loopF EXCEPT !.pc = "L15"])

\* line 15: return p1
LoopReturn ==
    /\ active = "fibonacci_loop"
    /\ loopF.pc = "L15"
    /\ LoopFrameReturn(loopF.p1)

\* ----------------------------------------------------- fibonacci_numba_loop
TimedOthers == <<numbaInstalled, modpc, last, loadCalls, stack, maxDepth, steps,
                 loopF, timedCalls>>

\* line 18: import numba
TimedImportNumba ==
    /\ active = "fibonacci_numba_loop"
    /\ timedF.pc = "L18"
    /\ numbaInstalled
    /\ timedF' = [timedF EXCEPT !.pc = "L19"]
    /\ UNCHANGED <<active, ret, out, jitF, events, jitArgs>>
    /\ UNCHANGED TimedOthers

\* line 18: import numba, with no numba to import: the call raises
TimedImportFails ==
    /\ active = "fibonacci_numba_loop"
    /\ timedF.pc = "L18"
    /\ ~numbaInstalled
    /\ timedF' = [timedF EXCEPT !.pc = "raised"]
    /\ ret' = Raised
    /\ active' = "none"
    /\ UNCHANGED <<out, jitF, events, jitArgs>>
    /\ UNCHANGED TimedOthers

\* line 19: import time
TimedImportTime ==
    /\ active = "fibonacci_numba_loop"
    /\ timedF.pc = "L19"
    /\ timedF' = [timedF EXCEPT !.pc = "L21"]
    /\ UNCHANGED <<active, ret, out, jitF, events, jitArgs>>
    /\ UNCHANGED TimedOthers

\* lines 21-22: @numba.jit() def jitted_fibonacci_loop: with no signature given
\* the decorator makes a dispatcher that has compiled nothing yet.
TimedDefine ==
    /\ active = "fibonacci_numba_loop"
    /\ timedF.pc = "L21"
    /\ timedF' = [timedF EXCEPT !.pc = "L32", !.compiled = FALSE]
    /\ events' = Append(events, "define")
    /\ UNCHANGED <<active, ret, out, jitF, jitArgs>>
    /\ UNCHANGED TimedOthers

\* line 32: start = time.time()
TimedStart ==
    /\ active = "fibonacci_numba_loop"
    /\ timedF.pc = "L32"
    /\ \E t \in 0..MaxTick :
          timedF' = [timedF EXCEPT !.pc = "L33", !.start = t]
    /\ events' = Append(events, "start")
    /\ UNCHANGED <<active, ret, out, jitF, jitArgs>>
    /\ UNCHANGED TimedOthers

\* line 33: jitted_fibonacci_loop(n_value), the dispatcher called with an
\* argument type it has no compiled code for: it compiles the function.
JitCompile ==
    /\ active = "fibonacci_numba_loop"
    /\ timedF.pc = "L33"
    /\ ~timedF.compiled
    /\ timedF' = [timedF EXCEPT !.compiled = TRUE]
    /\ events' = Append(events, "compile")
    /\ UNCHANGED <<active, ret, out, jitF, jitArgs>>
    /\ UNCHANGED TimedOthers

\* line 33: the dispatcher runs the compiled code on n_value.
JitEnter ==
    /\ active = "fibonacci_numba_loop"
    /\ timedF.pc = "L33"
    /\ timedF.compiled
    /\ timedF' = [timedF EXCEPT !.pc = "L33_in"]
    /\ jitF' = [NoJitFrame EXCEPT !.pc = "L23", !.n = timedF.n_value]
    /\ jitArgs' = Append(jitArgs, timedF.n_value)
    /\ events' = Append(events, "run")
    /\ UNCHANGED <<active, ret, out>>
    /\ UNCHANGED TimedOthers

JitFrameStep(f) ==
    /\ jitF' = f
    /\ UNCHANGED <<active, ret, out, timedF, events, jitArgs>>
    /\ UNCHANGED TimedOthers

\* The compiled function returns v to line 33, which drops the value.
JitFrameReturn(v) ==
    /\ jitF' = [jitF EXCEPT !.pc = "returned", !.result = v]
    /\ timedF' = [timedF EXCEPT !.pc = "L34"]
    /\ UNCHANGED <<active, ret, out, events, jitArgs>>
    /\ UNCHANGED TimedOthers

\* lines 23-24: if n <= 1: return n
JitBase ==
    /\ active = "fibonacci_numba_loop"
    /\ jitF.pc = "L23"
    /\ JitTest(jitF.n)
    /\ JitFrameReturn(Int64(jitF.n))

\* lines 23, 25: else
JitElse ==
    /\ active = "fibonacci_numba_loop"
    /\ jitF.pc = "L23"
    /\ ~JitTest(jitF.n)
    /\ JitFrameStep([jitF EXCEPT !.pc = "L26"])

\* line 26: p0 = 0
JitSetP0 ==
    /\ active = "fibonacci_numba_loop"
    /\ jitF.pc = "L26"
    /\ JitFrameStep([jitF EXCEPT !.pc = "L27", !.p0 = Int64(0)])

\* line 27: p1 = 1
JitSetP1 ==
    /\ active = "fibonacci_numba_loop"
    /\ jitF.pc = "L27"
    /\ JitFrameStep([jitF EXCEPT !.pc = "L28", !.p1 = Int64(1)])

\* lines 28-29: one iteration of for _ in range(n+1): p0, p1 = p1, p0 + p1
JitIterate ==
    /\ active = "fibonacci_numba_loop"
    /\ jitF.pc = "L28"
    /\ jitF.i < JitLoopCount(jitF.n)
    /\ LET p == JitLoopBody(<<jitF.p0, jitF.p1>>)
       IN  JitFrameStep([jitF EXCEPT !.p0 = p[1], !.p1 = p[2], !.i = @ + 1])

\* line 28: the range is exhausted
JitExit ==
    /\ active = "fibonacci_numba_loop"
    /\ jitF.pc = "L28"
    /\ ~(jitF.i < JitLoopCount(jitF.n))
    /\ JitFrameStep([jitF EXCEPT !.pc = "L30"])

\* line 30: return p1
JitReturn ==
    /\ active = "fibonacci_numba_loop"
    /\ jitF.pc = "L30"
    /\ JitFrameReturn(jitF.p1)

\* line 34: finish = time.time()
TimedFinish ==
    /\ active = "fibonacci_numba_loop"
    /\ timedF.pc = "L34"
    /\ \E t \in timedF.start..(timedF.start + MaxTick) :
          timedF' = [timedF EXCEPT !.pc = "L36", !.finish = t]
    /\ events' = Append(events, "finish")
    /\ UNCHANGED <<active, ret, out, jitF, jitArgs>>
    /\ UNCHANGED TimedOthers

\* Line 36 followed by a return of the inner function's value.
TimedPrintMutant ==
    /\ active = "fibonacci_numba_loop"
    /\ timedF.pc = "L36"
    /\ out' = Append(out, TimedLine(timedF.finish - timedF.start))
    /\ events' = Append(events, "print")
    /\ timedF' = [timedF EXCEPT !.pc = "returned"]
    /\ ret' = IntValue(jitF.result)
    /\ active' = "none"
    /\ UNCHANGED <<jitF, jitArgs>>
    /\ UNCHANGED TimedOthers

\* line 36: print(f"... took: {finish - start}"); the function ends and
\* returns None.
TimedPrint ==
    /\ active = "fibonacci_numba_loop"
    /\ timedF.pc = "L36"
    /\ out' = Append(out, TimedLine(timedF.finish - timedF.start))
    /\ events' = Append(events, "print")
    /\ timedF' = [timedF EXCEPT !.pc = "returned"]
    /\ ret' = NoneValue
    /\ active' = "none"
    /\ UNCHANGED <<jitF, jitArgs>>
    /\ UNCHANGED TimedOthers

\* ---------------------------------------------------------- specification
\* A step of the running call.
Step ==
    \/ LoadCall
    \/ LoadPrint
    \/ FibBase
    \/ FibFirst
    \/ FibSecond
    \/ FibSum
    \/ LoopBase
    \/ LoopElse
    \/ LoopSetP0
    \/ LoopSetP1
    \/ LoopIterate
    \/ LoopExit
    \/ LoopReturn
    \/ TimedImportNumba
    \/ TimedImportFails
    \/ TimedImportTime
    \/ TimedDefine
    \/ TimedStart
    \/ JitCompile
    \/ JitEnter
    \/ JitBase
    \/ JitElse
    \/ JitSetP0
    \/ JitSetP1
    \/ JitIterate
    \/ JitExit
    \/ JitReturn
    \/ TimedFinish
    \/ TimedPrint

Next ==
    \/ Step
    \/ CallFibonacci
    \/ CallLoop
    \/ CallTimed

Spec == Init /\ [][Next]_vars

\* The interpreter runs the module body and every call to completion.
FairSpec == Spec /\ WF_vars(Step)

\* ------------------------------------------------------------------ claims
\* The latest top-level call was fn(...) and has ended.
Completed(fn) == active = "none" /\ last.fn = fn /\ ret.kind # "pending"

\* C1: for every n >= 0 in the range, fibonacci(n) returns F(n); in
\* particular fibonacci(10) returns 55.
C1_FibonacciReturnsF ==
    Completed("fibonacci") =>
        /\ ret = IntValue(F(last.n))
        /\ fibonacci(last.n) = F(last.n)
        /\ (last.n = 10 => ret.val = PyInt(55))

C1_Witness ==
    /\ Completed("fibonacci")
    /\ last.n = 10
    /\ ret = IntValue(PyInt(55))

\* C2, as claimed: for every n > 1, fibonacci_loop(n) returns F(n+1).
C2_Original ==
    (Completed("fibonacci_loop") /\ last.n > 1) => ret = IntValue(F(last.n + 1))

\* C2, amended: for every n > 1, fibonacci_loop(n) returns F(n+2), two steps
\* beyond F(n): fibonacci_loop(n) = fibonacci(n+2).
C2_LoopReturnsFnPlus2 ==
    (Completed("fibonacci_loop") /\ last.n > 1) =>
        /\ ret = IntValue(F(last.n + 2))
        /\ fibonacci_loop(last.n) = F(last.n + 2)
        /\ (last.n + 2 <= MaxRecN => ret.val = fibonacci(last.n + 2))

C2_Witness ==
    /\ Completed("fibonacci_loop")
    /\ last.n = 5
    /\ ret = IntValue(PyInt(13))
    /\ ret.val = fibonacci(7)

\* C3: for every n >= 0, fibonacci_loop(n) returns F(n), the value of
\* fibonacci(n).
C3_LoopReturnsF ==
    Completed("fibonacci_loop") =>
        /\ ret = IntValue(F(last.n))
        /\ (last.n <= MaxRecN => ret.val = fibonacci(last.n))

\* C4: for n in {0, 1}, fibonacci(n) = n and fibonacci_loop(n) = n, and
\* fibonacci_loop returns without a loop iteration: p0 and p1 are never
\* assigned.
C4_BaseCases ==
    /\ (Completed("fibonacci") /\ last.n <= 1) => ret = IntValue(PyInt(last.n))
    /\ (last.fn = "fibonacci_loop" /\ last.n <= 1) =>
          /\ loopF.p0 = Unbound
          /\ loopF.p1 = Unbound
          /\ loopF.i = 0
          /\ loopF.pc \in {"L8", "returned"}
          /\ (Completed("fibonacci_loop") => ret = IntValue(PyInt(last.n)))

C4_Witness ==
    /\ Completed("fibonacci_loop")
    /\ last.n = 1
    /\ ret = IntValue(PyInt(1))
    /\ loopF.pc = "returned"
    /\ loopF.p1 = Unbound

\* C5: loading the module prints exactly one line, the integer that
\* fibonacci_loop(30) returned, and invokes neither fibonacci nor
\* fibonacci_numba_loop.
C5_LoadPrintsOnce ==
    /\ [](modpc # "done" =>
            /\ out = << >>
            /\ active \in {"none", "fibonacci_loop"}
            /\ loadCalls \subseteq {"fibonacci_loop"})
    /\ [][(modpc # "done" /\ modpc' = "done") =>
            /\ last = [fn |-> "fibonacci_loop", n |-> 30]
            /\ out' = <<IntLine(ret.val)>>
            /\ ret = IntValue(fibonacci_loop(30))
            /\ loadCalls' = {"fibonacci_loop"}]_vars
    /\ [][loadCalls # {} => loadCalls' = loadCalls]_vars

C5_Witness ==
    /\ modpc = "done"
    /\ timedCalls = 0
    /\ out = <<IntLine(<<15621, 33>>)>>
    /\ loadCalls = {"fibonacci_loop"}

\* C6: in fibonacci_numba_loop, every compilation of the inner function comes
\* before the start timestamp is taken: none lies between start and finish.
C6_CompileBeforeStart ==
    \A i \in 1..Len(events) :
        events[i] = "compile" => \A j \in 1..i : events[j] # "start"

\* The number of lines the module body has printed.
LoadLines == IF modpc = "done" THEN 1 ELSE 0

\* The number of fibonacci_numba_loop calls that ran to their end.
CompletedTimed ==
    IF numbaInstalled
    THEN timedCalls - (IF active = "fibonacci_numba_loop" THEN 1 ELSE 0)
    ELSE 0

\* C7: each completed call of fibonacci_numba_loop(n_value) writes exactly one
\* line (the prefix, then finish - start), invokes the inner function exactly
\* once, with n_value, and returns None: the inner result is dropped.
C7_TimedCall ==
    /\ Len(out) = LoadLines + CompletedTimed
    /\ (active = "fibonacci_numba_loop" => Len(jitArgs) <= 1)
    /\ (Completed("fibonacci_numba_loop") /\ ret.kind # "ModuleNotFoundError") =>
          /\ out[Len(out)] = TimedLine(timedF.finish - timedF.start)
          /\ jitArgs = <<last.n>>
          /\ jitF.pc = "returned"
          /\ jitF.result = jitted_fibonacci_loop(last.n)
          /\ ret = NoneValue

C7_Witness ==
    /\ Completed("fibonacci_numba_loop")
    /\ last.n = 5
    /\ ret = NoneValue
    /\ jitArgs = <<5>>
    /\ jitF.result = Int64(13)
    /\ out = <<IntLine(<<15621, 33>>), TimedLine(1)>>

\* C8: jitted_fibonacci_loop is the same algorithm as fibonacci_loop: on the
\* same n it takes the same branch, runs the same number of iterations, holds
\* the same (p0, p1) after every iteration and returns the same result.
C8_JitSameAsLoop ==
    jitF.pc # "none" =>
        /\ (jitF.pc \in {"L26", "L27", "L28", "L30"} => ~(jitF.n <= 1))
        /\ jitF.i <= LoopCount(jitF.n)
        /\ (jitF.pc = "L30" => jitF.i = LoopCount(jitF.n))
        /\ (jitF.pc \in {"L28", "L30"} =>
               /\ SameNumber(LoopAfter(jitF.i)[1], jitF.p0)
               /\ SameNumber(LoopAfter(jitF.i)[2], jitF.p1))
        /\ (jitF.pc = "returned" => SameNumber(fibonacci_loop(jitF.n), jitF.result))

\* C9: in fibonacci_loop(n) with n > 1 the accumulators start at (0, 1), are
\* (F(k), F(k+1)) after the k-th iteration for 0 <= k <= n+1, the loop stops
\* after exactly n+1 iterations, and the value returned is p1 at that point.
C9_LoopInvariant ==
    (last.fn = "fibonacci_loop" /\ last.n > 1) =>
        /\ loopF.n = last.n
        /\ loopF.i <= last.n + 1
        /\ (loopF.pc \in {"L13", "L15", "returned"} =>
               /\ loopF.p0 = F(loopF.i)
               /\ loopF.p1 = F(loopF.i + 1))
        /\ (loopF.pc = "L13" /\ loopF.i = 0 =>
               loopF.p0 = PyInt(0) /\ loopF.p1 = PyInt(1))
        /\ (loopF.pc \in {"L15", "returned"} => loopF.i = last.n + 1)
        /\ (loopF.pc = "returned" => ret = IntValue(loopF.p1))

C9_Witness ==
    /\ Completed("fibonacci_loop")
    /\ last.n = 5
    /\ loopF.i = 6
    /\ loopF.p0 = PyInt(8)
    /\ loopF.p1 = PyInt(13)

\* Every frame but the outermost was called with an argument that is smaller
\* than its caller's and is not negative.
ArgumentsDecrease ==
    \A i \in 2..Len(stack) : stack[i].n < stack[i - 1].n /\ stack[i].n >= 0

\* C10, as claimed (its parts a finite run can refute): every recursive call
\* of fibonacci(n) has a strictly smaller argument >= 0, and the largest
\* call-stack depth reached equals n.
C10_Original ==
    /\ ArgumentsDecrease
    /\ Completed("fibonacci") => maxDepth = last.n

\* C10, amended: fibonacci(n) terminates, every recursive call has a strictly
\* smaller argument >= 0, and the largest call-stack depth reached (the number
\* of fibonacci frames active at once) is n for n >= 1 and 1 for n = 0.
C10_TerminatesDepth ==
    /\ [](ArgumentsDecrease)
    /\ [](last.fn = "fibonacci" => maxDepth <= Max(last.n, 1))
    /\ [](Completed("fibonacci") => maxDepth = Max(last.n, 1))
    /\ (active = "fibonacci") ~> Completed("fibonacci")

C10_Witness ==
    /\ Completed("fibonacci")
    /\ last.n = 7
    /\ maxDepth = 7
    /\ steps > 7

====
